---- MODULE Spec2Model ----
(***************************************************************************)
(* Model of main.py, the Streamlit dashboard that predicts the silica      *)
(* concentration of a flotation process.                                   *)
(*                                                                         *)
(* Streamlit executes the script top to bottom once per page load and once *)
(* per widget interaction ("run").  A run is modelled as the steps         *)
(*   load (28) -> sidebar (31-65) -> logic (80-101) -> footer (103-123)    *)
(* and a user event is taken only between runs.  An exception that no      *)
(* handler of the script catches ends the run there; Streamlit renders it  *)
(* in place of the rest of the page.                                       *)
(*                                                                         *)
(* Slider values are in hundredths (241.70 is 24170); predictor outputs    *)
(* are in ten-thousandths (65.4321 is 654321).                             *)
(***************************************************************************)
EXTENDS Integers, Sequences, FiniteSets, TLC

\* Number of script runs explored per behaviour.
MaxRuns == 3

----------------------------------------------------------------------------
\* The three st.slider calls of the sidebar.

AmineMin == 24170
AmineMax == 73930
AmineDefault == 48843
AirMin == 17585
AirMax == 37244
AirDefault == 28013
IronMin == 6251
IronMax == 6801
IronDefault == 0
SliderStep == 100

\* The script variable each slider is assigned to.
SliderVars == {"flowrate", "temperature", "pressure"}

min_value == [flowrate |-> AmineMin, temperature |-> AirMin, pressure |-> IronMin]
max_value == [flowrate |-> AmineMax, temperature |-> AirMax, pressure |-> IronMax]
value == [flowrate |-> AmineDefault, temperature |-> AirDefault, pressure |-> IronDefault]

\* Positions the user can drag a slider to: the ends of the declared range
\* and the first step above the minimum.
SliderChoices(s) == {min_value[s], min_value[s] + SliderStep, max_value[s]}

\* st.slider is called with float min_value/max_value and an int step (and,
\* for the third slider, an int value).  Streamlit validates that the numeric
\* arguments of a slider have one type and raises StreamlitAPIException when
\* they do not; the repository does not pin the library, so whether the
\* installed Streamlit rejects or accepts these arguments is a property of
\* the environment, fixed for the life of the process.
SliderApis == {"rejects", "accepts"}

\* What st.slider returns when it accepts its arguments: the widget's value
\* in the session, which is the `value` argument until the user moves it.
slider(w, s) == w[s]

----------------------------------------------------------------------------
\* The script's global names that hold numbers.  Unbound marks a name no
\* statement has assigned in the current run.

Unbound == -1
NumNames == {"flowrate", "temperature", "pressure", "flowrateAmina", "IronConcentrate"}
EmptyGlobals == [n \in NumNames |-> Unbound]

\* Variant: the columns filled from the variables the sliders are assigned to.
ColumnsDeclared == << <<"Amina Flow", "flowrate">>,
      <<"Flotation Column 01 Air Flow", "temperature">>,
      <<"% Iron Concentrate", "pressure">> >>
\* The names whose values lines 86-88 put in the columns of df_input,
\* in evaluation order.
Columns == << <<"Amina Flow", "flowrateAmina">>,
      <<"Flotation Column 01 Air Flow", "flowrate">>,
      <<"% Iron Concentrate", "IronConcentrate">> >>

\* pd.DataFrame({...}) of lines 85-89: the dict display evaluates each name;
\* the first unbound one raises NameError and no frame is built.
df_input(g) ==
  IF \E i \in 1..Len(Columns) : g[Columns[i][2]] = Unbound
    THEN [raised |-> TRUE, frame |-> {}]
    ELSE [raised |-> FALSE,
          frame |-> {<<Columns[i][1], g[Columns[i][2]]>> : i \in 1..Len(Columns)}]

----------------------------------------------------------------------------
\* The model artifact and load_model.

None == "None"
Predictor == "Predictor"
NotLoaded == "NotLoaded"

\* State of 'model_flotacion.joblib' in the working directory.
FileStates == {"missing", "valid", "corrupt"}

\* joblib.load(model_path)
joblib_load(fs) ==
  CASE fs = "valid"   -> [raised |-> "no", model |-> Predictor]
    [] fs = "missing" -> [raised |-> "FileNotFoundError", model |-> None]
    [] fs = "corrupt" -> [raised |-> "Exception", model |-> None]

\* The body of load_model: try joblib.load, except FileNotFoundError:
\* st.error and return None.  Any other exception propagates.
load_model(fs) ==
  LET r == joblib_load(fs) IN
  CASE r.raised = "no" -> [raised |-> FALSE, model |-> r.model, elems |-> {}]
    [] r.raised = "FileNotFoundError" ->
         [raised |-> FALSE, model |-> None, elems |-> {"loadError"}]
    [] OTHER -> [raised |-> TRUE, model |-> None, elems |-> {}]

\* Variant: a cache that never answers from its store.
CacheAlwaysMiss(c) == FALSE

\* @st.cache_resource: a call whose result is stored returns it without
\* running the body.
CacheHit(c) == c.filled

EmptyCache == [filled |-> FALSE, model |-> None, elems |-> {}]

----------------------------------------------------------------------------
\* The predictor the artifact deserializes to, seen from model.predict:
\* it returns a one-element sequence holding v, raises with a text, or
\* returns something whose first element cannot be formatted as a float.

StubValues == {654321, 21999}
Stubs == {[kind |-> "returns", v |-> x, text |-> ""] : x \in StubValues}
   \cup {[kind |-> "raises", v |-> 0, text |-> "boom"],
         [kind |-> "bad", v |-> 0, text |-> "unsupported format string"]}

\* f"{x:.2f}" for x >= 0 given in ten-thousandths: hundredths, rounded to
\* nearest (StubValues holds no tie), printed with two decimals.
Format2(x) ==
  LET h == (x \div 100) + (IF x % 100 > 50 THEN 1 ELSE 0)
  IN  [whole |-> h \div 100, decimals |-> <<(h % 100) \div 10, h % 10>>]

NoText == [whole |-> -1, decimals |-> <<>>]

\* Variant: a button that reports a click in every run.
ButtonAlways(c) == TRUE

\* st.button(...): True only in the run the click caused.
button(c) == c = "button"

\* Lines 92-99: the try block around model.predict and its handler.
\* The subheader of line 94 is rendered before line 96 indexes and formats
\* the returned value.
TryPredict(st) ==
  CASE st.kind = "raises" ->
         [elems |-> {"predError"}, result |-> "failed", calls |-> 1,
          shown |-> NoText, errText |-> st.text]
    [] st.kind = "bad" ->
         [elems |-> {"header", "predError"}, result |-> "failed", calls |-> 1,
          shown |-> NoText, errText |-> st.text]
    [] OTHER ->
         [elems |-> {"header", "success", "info"}, result |-> "success", calls |-> 1,
          shown |-> Format2(st.v), errText |-> ""]

\* Lines 80-101.
PredictionLogic(m, c, g, st) ==
  IF m = None
    THEN [crashed |-> FALSE, entered |-> 0, frame |-> {}, elems |-> {"warning"},
          result |-> "none", calls |-> 0, shown |-> NoText, errText |-> ""]
  ELSE IF ~button(c)
    THEN [crashed |-> FALSE, entered |-> 0, frame |-> {}, elems |-> {"button"},
          result |-> "none", calls |-> 0, shown |-> NoText, errText |-> ""]
  ELSE LET df == df_input(g) IN
    IF df.raised
      THEN [crashed |-> TRUE, entered |-> 1, frame |-> {}, elems |-> {"button"},
            result |-> "none", calls |-> 0, shown |-> NoText, errText |-> ""]
      ELSE LET t == TryPredict(st) IN
           [crashed |-> FALSE, entered |-> 1, frame |-> df.frame,
            elems |-> {"button"} \cup t.elems, result |-> t.result,
            calls |-> t.calls, shown |-> t.shown, errText |-> t.errText]

----------------------------------------------------------------------------
VARIABLES
  fileState,    \* environment: the artifact file
  sliderApi,    \* environment: the installed st.slider's argument check
  stub,         \* environment: behaviour of the deserialized predictor
  cache,        \* st.cache_resource entry of load_model('model_flotacion.joblib')
  loads,        \* number of joblib.load calls made by the process
  widget,       \* session state of the three sliders
  pc,           \* position of the current run; "idle" between runs
  cause,        \* what caused the current (or last) run
  model,        \* the script global `model` in the current run
  globals,      \* the script's numeric globals in the current run
  display,      \* elements the current (or last) run has rendered
  exception,    \* the uncaught exception that ended the run, or "none"
  frame,        \* the df_input built in the current run, as (column, value) pairs
  result,       \* "none", "success" or "failed": how the try block ended
  shown,        \* text of the success message's value
  errText,      \* exception text inside the prediction error message
  runs,         \* runs started
  clicks,       \* trigger activations
  entries,      \* times the body of `if st.button(...)` was entered
  predictCalls, \* model.predict calls made by the process
  runCalls      \* model.predict calls made by the current run

vars == <<fileState, sliderApi, stub, cache, loads, widget, pc, cause, model,
          globals, display, exception, frame, result, shown, errText, runs,
          clicks, entries, predictCalls, runCalls>>

env == <<fileState, sliderApi, stub>>

Init ==
  /\ fileState \in FileStates
  /\ sliderApi \in SliderApis
  /\ stub \in Stubs
  /\ cache = EmptyCache
  /\ loads = 0
  /\ widget = value
  /\ pc = "idle"
  /\ cause = "none"
  /\ model = NotLoaded
  /\ globals = EmptyGlobals
  /\ display = {}
  /\ exception = "none"
  /\ frame = {}
  /\ result = "none"
  /\ shown = NoText
  /\ errText = ""
  /\ runs = 0
  /\ clicks = 0
  /\ entries = 0
  /\ predictCalls = 0
  /\ runCalls = 0

\* A run starts with a fresh module namespace and an empty page.
StartRun(c) ==
  /\ pc = "idle"
  /\ runs < MaxRuns
  /\ pc' = "load"
  /\ cause' = c
  /\ runs' = runs + 1
  /\ model' = NotLoaded
  /\ globals' = EmptyGlobals
  /\ display' = {}
  /\ exception' = "none"
  /\ frame' = {}
  /\ result' = "none"
  /\ shown' = NoText
  /\ errText' = ""
  /\ runCalls' = 0
  /\ UNCHANGED <<env, cache, loads, entries, predictCalls>>

\* The browser opens or reloads the page: a new session, widgets at their defaults.
PageLoad ==
  /\ StartRun("pageload")
  /\ widget' = value
  /\ UNCHANGED clicks

\* The user moves a slider that the last run rendered.
SliderChange ==
  /\ "slider" \in display
  /\ \E s \in SliderVars : \E x \in SliderChoices(s) :
       /\ x # widget[s]
       /\ widget' = [widget EXCEPT ![s] = x]
  /\ StartRun("slider")
  /\ UNCHANGED clicks

\* The user presses the predict button that the last run rendered.
ButtonClick ==
  /\ "button" \in display
  /\ StartRun("button")
  /\ clicks' = clicks + 1
  /\ UNCHANGED widget

\* An uncaught exception ends the run.
Crash(exc) ==
  /\ pc' = "idle"
  /\ exception' = exc

\* Line 28: model = load_model('model_flotacion.joblib')
LoadStep ==
  /\ pc = "load"
  /\ IF CacheHit(cache)
       THEN /\ model' = cache.model
            /\ display' = display \cup cache.elems
            /\ pc' = "sidebar"
            /\ UNCHANGED <<cache, loads, exception>>
       ELSE LET r == load_model(fileState) IN
            /\ loads' = loads + 1
            /\ IF r.raised
                 THEN /\ Crash("Exception")
                      /\ UNCHANGED <<cache, model, display>>
                 ELSE /\ cache' = [filled |-> TRUE, model |-> r.model, elems |-> r.elems]
                      /\ model' = r.model
                      /\ display' = display \cup r.elems
                      /\ pc' = "sidebar"
                      /\ UNCHANGED exception
  /\ UNCHANGED <<env, widget, cause, globals, frame, result, shown, errText,
                 runs, clicks, entries, predictCalls, runCalls>>

\* Lines 31-65: the sidebar with the three sliders.
Sidebar ==
  /\ pc = "sidebar"
  /\ IF sliderApi = "rejects"
       THEN /\ Crash("StreamlitAPIException")
            /\ UNCHANGED <<globals, display>>
       ELSE /\ globals' = [n \in NumNames |->
                            IF n \in SliderVars THEN slider(widget, n) ELSE globals[n]]
            /\ display' = display \cup {"slider"}
            /\ pc' = "logic"
            /\ UNCHANGED exception
  /\ UNCHANGED <<env, cache, loads, widget, cause, model, frame, result, shown,
                 errText, runs, clicks, entries, predictCalls, runCalls>>

\* Lines 80-101: the prediction logic.
Logic ==
  /\ pc = "logic"
  /\ LET p == PredictionLogic(model, cause, globals, stub) IN
       /\ display' = display \cup p.elems
       /\ frame' = p.frame
       /\ result' = p.result
       /\ shown' = p.shown
       /\ errText' = p.errText
       /\ entries' = entries + p.entered
       /\ predictCalls' = predictCalls + p.calls
       /\ runCalls' = runCalls + p.calls
       /\ IF p.crashed
            THEN Crash("NameError")
            ELSE pc' = "footer" /\ UNCHANGED exception
  /\ UNCHANGED <<env, cache, loads, widget, cause, model, globals, runs, clicks>>

\* Lines 103-123: divider and the explanation expander; the run ends.
Footer ==
  /\ pc = "footer"
  /\ display' = display \cup {"divider", "expander"}
  /\ pc' = "idle"
  /\ UNCHANGED <<env, cache, loads, widget, cause, model, globals, exception, frame,
                 result, shown, errText, runs, clicks, entries, predictCalls, runCalls>>

Next ==
  \/ PageLoad
  \/ SliderChange
  \/ ButtonClick
  \/ LoadStep
  \/ Sidebar
  \/ Logic
  \/ Footer

Spec == Init /\ [][Next]_vars

----------------------------------------------------------------------------
TypeOK ==
  /\ fileState \in FileStates
  /\ sliderApi \in SliderApis
  /\ stub \in Stubs
  /\ pc \in {"idle", "load", "sidebar", "logic", "footer"}
  /\ cause \in {"none", "pageload", "slider", "button"}
  /\ model \in {NotLoaded, None, Predictor}
  /\ result \in {"none", "success", "failed"}
  /\ runs \in 0..MaxRuns

\* A run has ended (completed or stopped by an uncaught exception).
RunOver == pc = "idle" /\ runs > 0

\* The record the claims expect: one column per slider, holding that slider's value.
ExpectedFrame ==
  {<<"Amina Flow", widget.flowrate>>,
   <<"Flotation Column 01 Air Flow", widget.temperature>>,
   <<"% Iron Concentrate", widget.pressure>>}

ResultElems == {"header", "success", "info"}

----------------------------------------------------------------------------
\* C1: when a run caused by a trigger activation has ended, the Feature
\* Record it built has exactly the columns 'Amina Flow', 'Flotation Column 01
\* Air Flow' and '% Iron Concentrate', each holding its own slider's value.
C1_FeatureRecord ==
  (RunOver /\ cause = "button") => frame = ExpectedFrame

\* C2: a run caused by a trigger activation (the predictor being available)
\* ends having called predict, in Success or Failed, with no uncaught
\* exception.
C2_ActivationCompletes ==
  (RunOver /\ cause = "button") =>
     /\ runCalls = 1
     /\ result \in {"success", "failed"}
     /\ exception = "none"

\* C3: with the artifact file missing, load_model returns None without
\* raising, predict is never invoked, and every run that has ended shows the
\* unavailable-model warning.
C3_MissingModel ==
  fileState = "missing" =>
     /\ predictCalls = 0
     /\ (pc \notin {"idle", "load"} => model = None)
     /\ (RunOver => (exception # "Exception" /\ "warning" \in display))

\* C3, the part the code keeps: with the artifact file missing, load_model
\* returns None without raising and predict is never invoked; the warning is
\* shown by every run in which the sidebar rendered.
MissingModelNoPredict ==
  fileState = "missing" =>
     /\ predictCalls = 0
     /\ (pc \notin {"idle", "load"} => model = None)
     /\ (RunOver => exception # "Exception")
     /\ ((RunOver /\ "slider" \in display) => "warning" \in display)

\* C4: when a trigger activation with a predictor that raises on predict
\* has ended, the prediction error message is displayed and contains the
\* exception's text, no success output is rendered, and the run did not end
\* in an uncaught exception.
C4_PredictErrorCaught ==
  (RunOver /\ cause = "button" /\ stub.kind = "raises") =>
     /\ "predError" \in display
     /\ errText = stub.text
     /\ display \cap ResultElems = {}
     /\ exception = "none"

\* C5: for a valid artifact, joblib.load is performed exactly once however
\* many times load_model is called: never more than once, and once as soon as
\* the first call has returned.
C5_LoadedOnce ==
  fileState = "valid" =>
     /\ loads <= 1
     /\ ((runs > 0 /\ pc # "load") => (loads = 1 /\ cache.filled))
     /\ (pc \notin {"idle", "load"} => model = Predictor)

\* C5 witness: a second run (a second load_model call) has passed line 28
\* with a valid artifact.
C5_Witness ==
  fileState = "valid" /\ runs >= 2 /\ pc = "sidebar" /\ loads = 1

\* C6: when a trigger activation with a predictor that returns v has ended,
\* the success message is displayed and shows v with exactly two decimals.
C6_TwoDecimals ==
  (RunOver /\ cause = "button" /\ stub.kind = "returns") =>
     /\ "success" \in display
     /\ shown = Format2(stub.v)

\* C7: in every state each slider's value lies in its declared closed range.
C7_SlidersInRange ==
  \A s \in SliderVars :
     /\ min_value[s] <= widget[s] /\ widget[s] <= max_value[s]
     /\ globals[s] # Unbound =>
          (min_value[s] <= globals[s] /\ globals[s] <= max_value[s])

\* C8: predict is invoked at most once per trigger activation and never by
\* a run a trigger activation did not cause; the body of the button branch,
\* the only caller of predict, is entered at most once per activation.
C8_FireOncePerClick ==
  /\ predictCalls <= entries
  /\ entries <= clicks
  /\ runCalls <= 1
  /\ (cause # "button" => runCalls = 0)

\* C8 witness: after a trigger activation, a run caused by a slider change
\* has ended.
C8_Witness ==
  RunOver /\ cause = "slider" /\ clicks >= 1

C10_ResultTransient ==
  /\ (display \cap (ResultElems \cup {"predError"}) # {} \/ exception = "NameError")
        => cause = "button"
  /\ "success" \in display => frame = ExpectedFrame

\* C10 witness: a slider change after a trigger activation has been rendered
\* to the end, with no output of the earlier activation on the page.
C10_Witness ==
  /\ RunOver /\ cause = "slider" /\ clicks >= 1 /\ "expander" \in display
  /\ display \cap (ResultElems \cup {"predError"}) = {}

====
